---- MODULE Spec2Model ----
(***************************************************************************)
(* Adaptive Large Neighborhood Search runner of u-metaheur                 *)
(* (src/src/alns/config.rs, src/src/alns/runner.rs).                       *)
(*                                                                         *)
(* f64 quantities of the configuration, the weights, the scores and the    *)
(* temperature are fixed-point integers with One standing for 1.0; every   *)
(* product or quotient is rounded down to the grid, as an f64 operation is *)
(* rounded to its grid.  Costs are integers in units of 1e-15, so that     *)
(* CostEps is the 1e-15 of the final history test.  NaN is a value of the  *)
(* grid on which every comparison is false.                                *)
(***************************************************************************)
EXTENDS Integers, Sequences, FiniteSets, TLC

VARIABLES
    cfg,            \* config: &AlnsConfig
    nDestroy,       \* destroy_ops.len()
    nRepair,        \* repair_ops.len()
    hasCancel,      \* cancel.is_some()
    flag,           \* the shared AtomicBool behind cancel
    pc,             \* position of run_with_cancel
    iteration,      \* the for loop's next index = iterations executed so far
    current, current_cost, best, best_cost,
    destroy_stats, repair_stats,
    temperature, improvements, cancelled, cost_history,
    last,           \* the locals of the iteration executed last
    result,         \* <<>> or <<the AlnsResult returned>>
    panic_msg,      \* message of the panic that ended the run, "" if none
    validation,     \* what config.validate() returned, "" before the call
    calls,          \* how often each collaborator was called
    flag_reads,     \* how often the runner loaded the flag
    evaluated,      \* the costs problem.cost() has returned so far
    roulette        \* the roulette_select call made on its own: draw and return

cfgVars   == <<cfg, nDestroy, nRepair, hasCancel>>
loopVars  == <<iteration, current, current_cost, best, best_cost, destroy_stats,
               repair_stats, temperature, improvements, cost_history, last,
               calls, evaluated>>
vars == <<cfg, nDestroy, nRepair, hasCancel, flag, pc, iteration, current,
          current_cost, best, best_cost, destroy_stats, repair_stats,
          temperature, improvements, cancelled, cost_history, last, result,
          panic_msg, validation, calls, flag_reads, evaluated, roulette>>

---------------------------------------------------------------------------
(* Bounds of the model *)
MaxIter == 3        \* largest max_iterations drawn
MaxOps  == 2        \* largest operator pool
MaxSol  == 3        \* solutions are 0..MaxSol
MaxWork == 32       \* largest max_iterations * choices of one iteration

(* 1.0 on the fixed-point grid *)
One == 4

(* f64::NAN: every ordered comparison with it is false *)
NaN == -99

Max(a, b) == IF a >= b THEN a ELSE b
Abs(a) == IF a < 0 THEN -a ELSE a

FLt(a, b) == a # NaN /\ b # NaN /\ a < b     \* a <  b on f64
FLe(a, b) == a # NaN /\ b # NaN /\ a <= b    \* a <= b on f64
FGt(a, b) == a # NaN /\ b # NaN /\ a > b     \* a >  b on f64
FGe(a, b) == a # NaN /\ b # NaN /\ a >= b    \* a >= b on f64

---------------------------------------------------------------------------
(* AlnsConfig::validate *)
validate(c) ==
    IF c.max_iterations = 0 THEN "max_iterations must be positive"
    ELSE IF FLe(c.reaction_factor, 0) \/ FGt(c.reaction_factor, One)
        THEN "reaction_factor must be in (0, 1]"
    ELSE IF FLe(c.cooling_rate, 0) \/ FGe(c.cooling_rate, One)
        THEN "cooling_rate must be in (0, 1)"
    ELSE IF FLe(c.initial_temperature, 0) THEN "initial_temperature must be positive"
    ELSE IF FLe(c.min_temperature, 0) THEN "min_temperature must be positive"
    ELSE IF FGt(c.min_destroy_degree, c.max_destroy_degree)
        THEN "min_destroy_degree must be <= max_destroy_degree"
    ELSE "Ok"

---------------------------------------------------------------------------
(* OperatorStats *)
OperatorStatsNew == [weight |-> One, segment_score |-> 0, segment_uses |-> 0]

\* faulty variant: a move of reward 0 is not counted as a use
record_SkipsZeroReward(stat, score) ==
    IF score = 0 THEN stat
    ELSE [stat EXCEPT !.segment_score = @ + score, !.segment_uses = @ + 1]

record(stat, score) ==
    [stat EXCEPT !.segment_score = @ + score, !.segment_uses = @ + 1]

\* faulty variant: the floor is applied to an unused operator too
SmoothedWeight_FloorAlways(stat, reaction_factor, min_weight) ==
    IF stat.segment_uses > 0
    THEN LET avg_score == stat.segment_score \div stat.segment_uses
             w == (stat.weight * (One - reaction_factor)) \div One
                  + (avg_score * reaction_factor) \div One
         IN  Max(w, min_weight)
    ELSE Max(stat.weight, min_weight)

\* w_new = max(w * (1 - rho) + (pi / theta) * rho, min_weight), only if used
SmoothedWeight(stat, reaction_factor, min_weight) ==
    IF stat.segment_uses > 0
    THEN LET avg_score == stat.segment_score \div stat.segment_uses
             w == (stat.weight * (One - reaction_factor)) \div One
                  + (avg_score * reaction_factor) \div One
         IN  Max(w, min_weight)
    ELSE stat.weight

\* faulty variant: the use counter is not reset
update_weight_KeepsUses(stat, reaction_factor, min_weight) ==
    [weight        |-> IF stat.segment_uses > 0
                       THEN Max((stat.weight * (One - reaction_factor)) \div One
                                + ((stat.segment_score \div stat.segment_uses)
                                      * reaction_factor) \div One,
                                min_weight)
                       ELSE stat.weight,
     segment_score |-> 0,
     segment_uses  |-> stat.segment_uses]

update_weight(stat, reaction_factor, min_weight) ==
    [weight        |-> SmoothedWeight(stat, reaction_factor, min_weight),
     segment_score |-> 0,
     segment_uses  |-> 0]

NewStats(n) == [i \in 0..(n - 1) |-> OperatorStatsNew]
Weights(stats) == [i \in DOMAIN stats |-> stats[i].weight]

---------------------------------------------------------------------------
(* roulette_select *)
RECURSIVE SumWeights(_, _)
SumWeights(stats, n) ==
    IF n = 0 THEN 0 ELSE SumWeights(stats, n - 1) + stats[n - 1].weight

NumOps(stats) == Cardinality(DOMAIN stats)
TotalWeight(stats) == SumWeights(stats, NumOps(stats))

\* faulty variant: only the empty list is answered without a draw
RouletteDraws_EmptyOnly(stats) == NumOps(stats) # 0

\* whether roulette_select draws from the stream at all
RouletteDraws(stats) == ~(TotalWeight(stats) <= 0 \/ NumOps(stats) = 0)

\* the values rng.random_range(0.0..total) can return
RollRange(stats) ==
    IF RouletteDraws(stats) THEN 0..(TotalWeight(stats) - 1) ELSE {0}

\* faulty variant: the last line returns weights.len()
RECURSIVE RouletteScan_NoClamp(_, _, _)
RouletteScan_NoClamp(stats, i, roll) ==
    IF i >= NumOps(stats) THEN NumOps(stats)
    ELSE LET rest == roll - stats[i].weight
         IN  IF rest <= 0 THEN i ELSE RouletteScan_NoClamp(stats, i + 1, rest)

RECURSIVE RouletteScan(_, _, _)
RouletteScan(stats, i, roll) ==
    IF i >= NumOps(stats) THEN NumOps(stats) - 1
    ELSE LET rest == roll - stats[i].weight
         IN  IF rest <= 0 THEN i ELSE RouletteScan(stats, i + 1, rest)

roulette_select(stats, roll) ==
    IF ~RouletteDraws(stats) THEN 0 ELSE RouletteScan(stats, 0, roll)

\* how many times the loop executes  roll -= stat.weight
RECURSIVE RouletteSubtractions(_, _, _)
RouletteSubtractions(stats, i, roll) ==
    IF i >= NumOps(stats) THEN 0
    ELSE LET rest == roll - stats[i].weight
         IN  IF rest <= 0 THEN 1 ELSE 1 + RouletteSubtractions(stats, i + 1, rest)

\* whether the loop ends without a remainder <= 0 and the last line returns
RECURSIVE RouletteFallsThrough(_, _, _)
RouletteFallsThrough(stats, i, roll) ==
    IF i >= NumOps(stats) THEN TRUE
    ELSE LET rest == roll - stats[i].weight
         IN  IF rest <= 0 THEN FALSE ELSE RouletteFallsThrough(stats, i + 1, rest)

\* total is the rounded sum of the weights and each  roll -= weight  rounds
\* again: a roll below total can exceed by this many grid units what the
\* loop subtracts
MaxRoundErr == 2

\* the values of the draw, measured against the sum as the loop subtracts it
RollRangeRounded(stats) ==
    IF RouletteDraws(stats) THEN 0..(TotalWeight(stats) + MaxRoundErr - 1) ELSE {}

\* the indices roulette_select can return, over every value of its draw
Selectable(stats) == {roulette_select(stats, roll) : roll \in RollRange(stats)}

---------------------------------------------------------------------------
(* The caller's problem: opaque solutions 0..MaxSol and their costs *)
Solutions == 0..MaxSol

\* AlnsProblem::cost of a concrete problem: two solutions share a cost, two
\* costs differ by no more than CostEps, and the costs are not the solutions
cost(s) == IF s <= 1 THEN 3 ELSE 3 - s

(* the 1e-15 of the final history test, in cost units *)
CostEps == 1

---------------------------------------------------------------------------
(* Acceptance: the if / else if / else of the loop body *)
\* faulty variant: a new best is recognised against the current cost only
Tier_AgainstCurrent(candidate_cost, cur_cost, bst_cost) ==
    IF candidate_cost < cur_cost THEN "NEW_BEST" ELSE "SA"

\* faulty variant: the improvement over current is tested first
Tier_ImprovedFirst(candidate_cost, cur_cost, bst_cost) ==
    IF candidate_cost < cur_cost THEN "IMPROVED"
    ELSE IF candidate_cost < bst_cost THEN "NEW_BEST"
    ELSE "SA"

\* faulty variant: a new best is never recognised
Tier_NoNewBest(candidate_cost, cur_cost, bst_cost) ==
    IF candidate_cost < cur_cost THEN "IMPROVED" ELSE "SA"

Tier(candidate_cost, cur_cost, bst_cost) ==
    IF candidate_cost < bst_cost THEN "NEW_BEST"
    ELSE IF candidate_cost < cur_cost THEN "IMPROVED"
    ELSE "SA"

\* faulty variant: the temperature is not tested before the exponential
AcceptOutcomes_NoTemperatureTest(delta, temp) ==
    IF delta = 0 THEN {TRUE} ELSE {TRUE, FALSE}

\* faulty variant: a candidate of equal cost is gated like a worse one
AcceptOutcomes_EqualGated(delta, temp) ==
    IF ~(temp > 0) THEN {FALSE} ELSE {TRUE, FALSE}

\* Outcomes of  rng.random_range(0.0..1.0) < accept_prob : accept_prob is 0
\* when temperature <= 0, exp(0) = 1 when delta = 0, and else some value of
\* [0, 1] that the draw may or may not be below.
AcceptOutcomes(delta, temp) ==
    IF ~(temp > 0) THEN {FALSE}
    ELSE IF delta = 0 THEN {TRUE}
    ELSE {TRUE, FALSE}

\* how many acceptance draws  rng.random_range(0.0..1.0)  the tier consumes
AcceptDraws(tier) == IF tier = "SA" THEN 1 ELSE 0

\* faulty variant: a new best earns the reward of an improvement
Score_NoBestReward(c, tier, accepted) ==
    IF tier \in {"NEW_BEST", "IMPROVED"} THEN c.score_improved
    ELSE IF accepted THEN c.score_accepted
    ELSE 0

\* faulty variant: an SA-gated move earns score_accepted even if rejected
Score_RejectedRewarded(c, tier, accepted) ==
    IF tier = "NEW_BEST" THEN c.score_new_best
    ELSE IF tier = "IMPROVED" THEN c.score_improved
    ELSE c.score_accepted

Score(c, tier, accepted) ==
    IF tier = "NEW_BEST" THEN c.score_new_best
    ELSE IF tier = "IMPROVED" THEN c.score_improved
    ELSE IF accepted THEN c.score_accepted
    ELSE 0

\* temperature = (temperature * cooling_rate).max(min_temperature)
Cool(temp, c) == Max((temp * c.cooling_rate) \div One, c.min_temperature)

\* history_interval = config.segment_length.max(1)
HistoryInterval(c) == Max(c.segment_length, 1)

\* faulty variant: samples the cost of the current trajectory
HistorySample_Current(bst_cost, cur_cost) == cur_cost

\* the value pushed to cost_history
HistorySample(bst_cost, cur_cost) == bst_cost

\* faulty variant: the final sample is appended unconditionally
FinalHistory_Always(history, bst_cost) == Append(history, bst_cost)

\* "Final history entry"
FinalHistory(history, bst_cost) ==
    IF Len(history) = 0 \/ Abs(history[Len(history)] - bst_cost) > CostEps
    THEN Append(history, bst_cost)
    ELSE history

\* AlnsResult.iterations
ResultIterations(c, wasCancelled, history) ==
    IF wasCancelled
    THEN Max(Len(history) - 1, 0) * HistoryInterval(c)
    ELSE c.max_iterations

---------------------------------------------------------------------------
(* The configurations a caller may pass.  AlnsConfig's fields are public,  *)
(* so any value of each field can reach run_with_cancel.                   *)
MaxSeg == 3         \* largest segment_length drawn

Half == One \div 2

\* a configuration validate() accepts and the loop runs through
BaseConfig ==
    [max_iterations      |-> 1,
     segment_length      |-> 1,
     score_new_best      |-> 3 * One,
     score_improved      |-> 2 * One,
     score_accepted      |-> One,
     reaction_factor     |-> Half,
     min_weight          |-> 1,
     min_destroy_degree  |-> 1,
     max_destroy_degree  |-> 2,
     initial_temperature |-> One,
     cooling_rate        |-> Half,
     min_temperature     |-> 1]

\* BaseConfig with one group of fields set to other values, valid or not
Variants ==
    {BaseConfig}
    \cup {[BaseConfig EXCEPT !.reaction_factor = v] : v \in {0, One, One + Half}}
    \cup {[BaseConfig EXCEPT !.min_weight = v] : v \in {One + Half}}
    \cup {[BaseConfig EXCEPT !.reaction_factor = One, !.min_weight = 0]}
    \cup {[BaseConfig EXCEPT !.min_destroy_degree = v[1], !.max_destroy_degree = v[2]] :
             v \in {<<1, 1>>, <<3, 1>>, <<One, One + 2>>}}
    \cup {[BaseConfig EXCEPT !.initial_temperature = v] : v \in {0}}
    \cup {[BaseConfig EXCEPT !.cooling_rate = v] : v \in {0, One}}
    \cup {[BaseConfig EXCEPT !.min_temperature = v] : v \in {0, One + Half}}

RunConfigs ==
    {[v EXCEPT !.max_iterations = n, !.segment_length = s] :
        v \in Variants, n \in 0..MaxIter, s \in 0..MaxSeg}

\* AlnsConfig::with_segment_length: self.segment_length = n.max(1)
with_segment_length(c, n) == [c EXCEPT !.segment_length = Max(n, 1)]

\* the values rng.random_range(min_destroy_degree..max_destroy_degree) can
\* return; the call panics when the range is empty
DegreeRange(c) == c.min_destroy_degree..(c.max_destroy_degree - 1)

\* the size of a run: its iterations times the choices each one has of
\* (d_idx, r_idx, degree, candidate)
Work(c, nD, nR) ==
    c.max_iterations * nD * nR * Max(1, Cardinality(DegreeRange(c)))
        * Cardinality(Solutions)

\* the users of the rng stream during initialization, in the order of the
\* source: problem.initial_solution(&mut rng)
InitialDraws == <<"initial_solution">>

\* the users of the rng stream in one iteration, in the order of the source:
\* the two roulette_select calls (which draw only if the weights sum to more
\* than 0), the degree, the destroy call, the repair call, the acceptance
\* draw of the SA branch
IterationDraws(dstats, rstats, tier) ==
    (IF RouletteDraws(dstats) THEN <<"destroy_select">> ELSE <<>>)
    \o (IF RouletteDraws(rstats) THEN <<"repair_select">> ELSE <<>>)
    \o <<"degree", "destroy", "repair">>
    \o (IF AcceptDraws(tier) = 1 THEN <<"accept">> ELSE <<>>)

NoIteration ==
    [d_idx |-> 0, r_idx |-> 0, degree |-> 0, candidate |-> 0,
     candidate_cost |-> 0, tier |-> "none", accepted |-> FALSE, score |-> 0,
     accept_draws |-> 0, draws |-> <<>>]

NoCalls == [initial_solution |-> 0, cost |-> 0, destroy |-> 0, repair |-> 0]

NoRoulette == [roll |-> 0, index |-> 0, draws |-> 0, subtractions |-> 0]

Init ==
    /\ cfg \in RunConfigs
    /\ nDestroy \in 0..MaxOps
    /\ nRepair \in 0..MaxOps
    /\ Work(cfg, nDestroy, nRepair) <= MaxWork
    /\ hasCancel \in BOOLEAN
    /\ flag = FALSE
    /\ pc = "INITIALIZING"
    /\ iteration = 0
    /\ current = 0 /\ current_cost = 0 /\ best = 0 /\ best_cost = 0
    /\ destroy_stats = <<>> /\ repair_stats = <<>>
    /\ temperature = 0 /\ improvements = 0 /\ cancelled = FALSE
    /\ cost_history = <<>>
    /\ last = NoIteration
    /\ result = <<>>
    /\ panic_msg = ""
    /\ validation = ""
    /\ calls = NoCalls
    /\ flag_reads = 0
    /\ evaluated = {}
    /\ roulette = NoRoulette

---------------------------------------------------------------------------
(* run_with_cancel, lines 136-169: the checks and the initialization *)
\* faulty variant: the repair pool is not checked
Precondition_NoRepairCheck(c, nD, nR) ==
    IF validate(c) # "Ok" THEN "invalid AlnsConfig"
    ELSE IF nD = 0 THEN "at least one destroy operator required"
    ELSE ""

\* the panic of the precondition that fails first, "" if none does
Precondition(c, nD, nR) ==
    IF validate(c) # "Ok" THEN "invalid AlnsConfig"
    ELSE IF nD = 0 THEN "at least one destroy operator required"
    ELSE IF nR = 0 THEN "at least one repair operator required"
    ELSE ""

Initialize ==
    /\ pc = "INITIALIZING"
    /\ validation' = validate(cfg)
    /\ IF Precondition(cfg, nDestroy, nRepair) # ""
       THEN /\ pc' = "ABORTED"
            /\ panic_msg' = Precondition(cfg, nDestroy, nRepair)
            /\ UNCHANGED loopVars
       ELSE \E s0 \in Solutions :
            /\ current' = s0
            /\ current_cost' = cost(s0)
            /\ best' = s0
            /\ best_cost' = cost(s0)
            /\ destroy_stats' = NewStats(nDestroy)
            /\ repair_stats' = NewStats(nRepair)
            /\ temperature' = cfg.initial_temperature
            /\ improvements' = 0
            /\ cost_history' = <<cost(s0)>>
            /\ calls' = [calls EXCEPT !.initial_solution = @ + 1, !.cost = @ + 1]
            /\ evaluated' = {cost(s0)}
            /\ last' = [last EXCEPT !.draws = InitialDraws]
            /\ pc' = "poll"
            /\ UNCHANGED <<iteration, panic_msg>>
    /\ UNCHANGED <<cfgVars, flag, cancelled, result, flag_reads, roulette>>

(* lines 171-177: the loop bound and the poll of the cancellation flag *)
\* faulty variant: the loaded value is ignored
FlagObserved_Never(has, f) == FALSE

\* if let Some(ref flag) = cancel { if flag.load(Ordering::Relaxed) {..} }
FlagObserved(has, f) == has /\ f

Poll ==
    /\ pc = "poll"
    /\ IF iteration >= cfg.max_iterations
       THEN pc' = "exit" /\ UNCHANGED <<cancelled, flag_reads>>
       ELSE IF hasCancel
       THEN /\ flag_reads' = flag_reads + 1
            /\ IF FlagObserved(hasCancel, flag)
               THEN cancelled' = TRUE /\ pc' = "exit"
               ELSE pc' = "body" /\ UNCHANGED cancelled
       ELSE pc' = "body" /\ UNCHANGED <<cancelled, flag_reads>>
    /\ UNCHANGED <<cfgVars, flag, loopVars, result, panic_msg, validation, roulette>>

(* lines 179-241: one iteration of the loop *)
RecordAt(stats, idx, score) == [stats EXCEPT ![idx] = record(@, score)]

UpdateAll(stats, c) ==
    [i \in DOMAIN stats |-> update_weight(stats[i], c.reaction_factor, c.min_weight)]

\* faulty variant: every iteration closes a segment
SegmentCloses_Every(c, it) == TRUE

SegmentCloses(c, it) == (it + 1) % c.segment_length = 0
HistoryDue(c, it) == (it + 1) % HistoryInterval(c) = 0

Iterate ==
    /\ pc = "body"
    /\ \E d_idx \in Selectable(destroy_stats), r_idx \in Selectable(repair_stats) :
       IF DegreeRange(cfg) = {}
       THEN /\ pc' = "ABORTED"
            /\ panic_msg' = "cannot sample empty range"
            /\ UNCHANGED loopVars
       ELSE
       \E degree \in DegreeRange(cfg), candidate \in Solutions :
       LET candidate_cost == cost(candidate)
           tier == Tier(candidate_cost, current_cost, best_cost)
       IN
       \E accepted \in (IF tier = "SA"
                        THEN AcceptOutcomes(candidate_cost - current_cost, temperature)
                        ELSE {TRUE}) :
       LET score == Score(cfg, tier, accepted)
           called == [calls EXCEPT !.destroy = @ + 1, !.repair = @ + 1, !.cost = @ + 1]
           dRec == RecordAt(destroy_stats, d_idx, score)
           rRec == RecordAt(repair_stats, r_idx, score)
           newBestCost == IF tier = "NEW_BEST" THEN candidate_cost ELSE best_cost
           newCurCost == IF accepted THEN candidate_cost ELSE current_cost
       IN
       IF cfg.segment_length = 0
       THEN /\ pc' = "ABORTED"
            /\ panic_msg' = "attempt to calculate the remainder with a divisor of zero"
            /\ calls' = called
            /\ UNCHANGED <<iteration, current, current_cost, best, best_cost,
                           destroy_stats, repair_stats, temperature, improvements,
                           cost_history, last, evaluated>>
       ELSE /\ best' = IF tier = "NEW_BEST" THEN candidate ELSE best
            /\ best_cost' = newBestCost
            /\ improvements' = IF tier = "NEW_BEST" THEN improvements + 1 ELSE improvements
            /\ current' = IF accepted THEN candidate ELSE current
            /\ current_cost' = newCurCost
            /\ destroy_stats' = IF SegmentCloses(cfg, iteration)
                                THEN UpdateAll(dRec, cfg) ELSE dRec
            /\ repair_stats' = IF SegmentCloses(cfg, iteration)
                               THEN UpdateAll(rRec, cfg) ELSE rRec
            /\ temperature' = Cool(temperature, cfg)
            /\ cost_history' = IF HistoryDue(cfg, iteration)
                               THEN Append(cost_history, HistorySample(newBestCost, newCurCost))
                               ELSE cost_history
            /\ last' = [d_idx |-> d_idx, r_idx |-> r_idx, degree |-> degree,
                        candidate |-> candidate, candidate_cost |-> candidate_cost,
                        tier |-> tier, accepted |-> accepted, score |-> score,
                        accept_draws |-> AcceptDraws(tier),
                        draws |-> IterationDraws(destroy_stats, repair_stats, tier)]
            /\ calls' = called
            /\ evaluated' = evaluated \cup {candidate_cost}
            /\ iteration' = iteration + 1
            /\ pc' = "poll"
            /\ UNCHANGED panic_msg
    /\ UNCHANGED <<cfgVars, flag, cancelled, result, validation, flag_reads, roulette>>

(* lines 244-267: the final history entry and the AlnsResult *)
\* faulty variant: a cancelled run is reported as completed
ExitState_Completed(wasCancelled) == "COMPLETED"

\* the state the run ends in once the Result is returned
ExitState(wasCancelled) == IF wasCancelled THEN "CANCELLED" ELSE "COMPLETED"

Finish ==
    /\ pc = "exit"
    /\ cost_history' = FinalHistory(cost_history, best_cost)
    /\ result' = << [best |-> best,
                     best_cost |-> best_cost,
                     iterations |-> ResultIterations(cfg, cancelled, cost_history'),
                     improvements |-> improvements,
                     final_temperature |-> temperature,
                     cancelled |-> cancelled,
                     destroy_weights |-> Weights(destroy_stats),
                     repair_weights |-> Weights(repair_stats),
                     cost_history |-> cost_history'] >>
    /\ pc' = ExitState(cancelled)
    /\ UNCHANGED <<cfgVars, flag, iteration, current, current_cost, best, best_cost,
                   destroy_stats, repair_stats, temperature, improvements, cancelled,
                   last, panic_msg, validation, calls, flag_reads, evaluated,
                   roulette>>

(* another thread stores true into the flag (test_alns_cancellation) *)
SetFlag ==
    /\ hasCancel
    /\ ~flag
    /\ pc \in {"INITIALIZING", "poll", "body", "exit"}
    /\ flag' = TRUE
    /\ UNCHANGED <<cfgVars, pc, loopVars, cancelled, result, panic_msg,
                   validation, flag_reads, roulette>>

Next == Initialize \/ Poll \/ Iterate \/ Finish \/ SetFlag

Spec == Init /\ [][Next]_vars

---------------------------------------------------------------------------
(* validate() on its own, over every combination of field values, NaN      *)
(* among them (with_reaction_factor, with_temperature and the public       *)
(* fields take any f64)                                                    *)
ValidateConfigs ==
    [max_iterations      : 0..MaxIter,
     segment_length      : {1},
     score_new_best      : {3 * One},
     score_improved      : {2 * One},
     score_accepted      : {One},
     reaction_factor     : {NaN, -1, 0, Half, One, One + Half},
     min_weight          : {1},
     min_destroy_degree  : {NaN, 1, 3},
     max_destroy_degree  : {NaN, 1, 3},
     initial_temperature : {NaN, -1, 0, One},
     cooling_rate        : {NaN, -1, 0, Half, One, One + Half},
     min_temperature     : {NaN, -1, 0, 1}]

InitValidate ==
    /\ cfg \in ValidateConfigs
    /\ nDestroy = 1 /\ nRepair = 1 /\ hasCancel = FALSE /\ flag = FALSE
    /\ pc = "validate"
    /\ iteration = 0
    /\ current = 0 /\ current_cost = 0 /\ best = 0 /\ best_cost = 0
    /\ destroy_stats = <<>> /\ repair_stats = <<>>
    /\ temperature = 0 /\ improvements = 0 /\ cancelled = FALSE
    /\ cost_history = <<>>
    /\ last = NoIteration
    /\ result = <<>>
    /\ panic_msg = ""
    /\ validation = ""
    /\ calls = NoCalls
    /\ flag_reads = 0
    /\ evaluated = {}
    /\ roulette = NoRoulette

\* config.validate(): takes &self, returns Ok or the error
ValidateCall ==
    /\ pc = "validate"
    /\ validation' = validate(cfg)
    /\ pc' = "validated"
    /\ UNCHANGED <<cfgVars, flag, loopVars, cancelled, result, panic_msg, flag_reads,
                   roulette>>

SpecValidate == InitValidate /\ [][ValidateCall]_vars

---------------------------------------------------------------------------
(* roulette_select on its own, over every list of up to MaxOps + 1         *)
(* operators with weights below, at and above 0, the empty list included   *)
RouletteWeights == (0 - 1)..2

StatsOf(w) == [i \in DOMAIN w |-> [OperatorStatsNew EXCEPT !.weight = w[i]]]

RoulettePools ==
    UNION {{StatsOf(w) : w \in [0..(n - 1) -> RouletteWeights]} : n \in 0..(MaxOps + 1)}

InitRoulette ==
    /\ cfg = BaseConfig
    /\ destroy_stats \in RoulettePools /\ repair_stats = <<>>
    /\ nDestroy = NumOps(destroy_stats) /\ nRepair = 0
    /\ hasCancel = FALSE /\ flag = FALSE
    /\ pc = "select"
    /\ iteration = 0
    /\ current = 0 /\ current_cost = 0 /\ best = 0 /\ best_cost = 0
    /\ temperature = 0 /\ improvements = 0 /\ cancelled = FALSE
    /\ cost_history = <<>>
    /\ last = NoIteration
    /\ result = <<>>
    /\ panic_msg = ""
    /\ validation = ""
    /\ calls = NoCalls
    /\ flag_reads = 0
    /\ evaluated = {}
    /\ roulette = NoRoulette

\* roulette_select(&destroy_stats, &mut rng)
RouletteCall ==
    /\ pc = "select"
    /\ IF RouletteDraws(destroy_stats)
       THEN \E roll \in RollRangeRounded(destroy_stats) :
            roulette' = [roll |-> roll,
                         index |-> roulette_select(destroy_stats, roll),
                         draws |-> 1,
                         subtractions |-> RouletteSubtractions(destroy_stats, 0, roll)]
       ELSE roulette' = [roll |-> 0,
                         index |-> roulette_select(destroy_stats, 0),
                         draws |-> 0,
                         subtractions |-> 0]
    /\ pc' = "selected"
    /\ UNCHANGED <<cfgVars, flag, loopVars, cancelled, result, panic_msg, validation,
                   flag_reads>>

SpecRoulette == InitRoulette /\ [][RouletteCall]_vars

---------------------------------------------------------------------------
(* The acceptance decision of lines 192-214 on its own, over every current *)
(* and best solution, every candidate and every temperature, those <= 0    *)
(* among them                                                              *)
AcceptTemperatures == (0 - 1)..One

InitAccept ==
    /\ cfg = BaseConfig
    /\ nDestroy = 1 /\ nRepair = 1 /\ hasCancel = FALSE /\ flag = FALSE
    /\ pc = "accept"
    /\ iteration = 0
    /\ current \in Solutions /\ current_cost = cost(current)
    /\ best \in Solutions /\ best_cost = cost(best)
    /\ best_cost <= current_cost
    /\ destroy_stats = NewStats(nDestroy) /\ repair_stats = NewStats(nRepair)
    /\ temperature \in AcceptTemperatures
    /\ improvements = 0 /\ cancelled = FALSE
    /\ cost_history = <<cost(best)>>
    /\ last = NoIteration
    /\ result = <<>>
    /\ panic_msg = ""
    /\ validation = ""
    /\ calls = NoCalls
    /\ flag_reads = 0
    /\ evaluated = {}
    /\ roulette = NoRoulette

\* let (accepted, score) = if .. else if .. else ..
AcceptCall ==
    /\ pc = "accept"
    /\ \E candidate \in Solutions :
       LET candidate_cost == cost(candidate)
           tier == Tier(candidate_cost, current_cost, best_cost)
       IN
       \E accepted \in (IF tier = "SA"
                        THEN AcceptOutcomes(candidate_cost - current_cost, temperature)
                        ELSE {TRUE}) :
       /\ best' = IF tier = "NEW_BEST" THEN candidate ELSE best
       /\ best_cost' = IF tier = "NEW_BEST" THEN candidate_cost ELSE best_cost
       /\ improvements' = IF tier = "NEW_BEST" THEN improvements + 1 ELSE improvements
       /\ last' = [d_idx |-> 0, r_idx |-> 0, degree |-> 0,
                   candidate |-> candidate, candidate_cost |-> candidate_cost,
                   tier |-> tier, accepted |-> accepted,
                   score |-> Score(cfg, tier, accepted),
                   accept_draws |-> AcceptDraws(tier),
                   draws |-> IF AcceptDraws(tier) = 1 THEN <<"accept">> ELSE <<>>]
    /\ pc' = "accepted"
    /\ UNCHANGED <<cfgVars, flag, iteration, current, current_cost, destroy_stats,
                   repair_stats, temperature, cancelled, cost_history, result,
                   panic_msg, validation, calls, flag_reads, evaluated, roulette>>

SpecAccept == InitAccept /\ [][AcceptCall]_vars

---------------------------------------------------------------------------
(* Properties *)
Running == pc \in {"poll", "body", "exit"}
Returned == pc \in {"COMPLETED", "CANCELLED"}
Initialized == Running \/ Returned
Res == result[1]

NonIncreasing(h) == \A i \in 1..(Len(h) - 1) : h[i + 1] <= h[i]

\* C1: in every Result returned, completed or cancelled, cost_history is
\* non-increasing: every entry is <= the entry before it.
C1_CostHistoryNonIncreasing ==
    Len(result) = 1 => NonIncreasing(Res.cost_history)

\* a Result whose history strictly decreased while the trajectory had moved
\* to a cost above the best
C1_Witness ==
    /\ Len(result) = 1
    /\ Len(Res.cost_history) >= 3
    /\ Res.cost_history[2] < Res.cost_history[1]
    /\ current_cost > best_cost

AllWeights(stats, P(_)) == \A i \in DOMAIN stats : P(stats[i].weight)

\* C2: for every configuration validate() accepts, every weight of both
\* pools is >= min_weight from initialization on: before the first segment
\* closes, after every weight update, and in the Result.
C2_WeightsAtLeastMinWeight ==
    Initialized =>
        /\ AllWeights(destroy_stats, LAMBDA w : w >= cfg.min_weight)
        /\ AllWeights(repair_stats, LAMBDA w : w >= cfg.min_weight)
        /\ Len(result) = 1 =>
              /\ \A i \in DOMAIN Res.destroy_weights : Res.destroy_weights[i] >= cfg.min_weight
              /\ \A i \in DOMAIN Res.repair_weights : Res.repair_weights[i] >= cfg.min_weight

\* C3: for every configuration validate() accepts, the cooling step of an
\* iteration never raises the temperature, and the final temperature is
\* <= initial_temperature.
C3_TemperatureNonIncreasing ==
    [][/\ pc = "body" => temperature' <= temperature
       /\ Len(result') = 1 => result'[1].final_temperature <= cfg.initial_temperature]_vars

\* C4: with a configuration validate() accepts and non-empty pools the loop
\* never aborts, and a run that is not cancelled returns after exactly
\* max_iterations iterations with cancelled = false, iterations = max_iterations.
C4_RunsToBudget ==
    Precondition(cfg, nDestroy, nRepair) = "" =>
        /\ pc # "ABORTED"
        /\ ~flag => pc # "CANCELLED"
        /\ pc = "COMPLETED" =>
              /\ iteration = cfg.max_iterations
              /\ Res.cancelled = FALSE
              /\ Res.iterations = cfg.max_iterations

(* the six rules of validate() as statements about numbers, which NaN, not
   being one, does not satisfy *)
Num(x) == x # NaN
RuleHolds(c) ==
    << c.max_iterations > 0,
       Num(c.reaction_factor) /\ 0 < c.reaction_factor /\ c.reaction_factor <= One,
       Num(c.cooling_rate) /\ 0 < c.cooling_rate /\ c.cooling_rate < One,
       Num(c.initial_temperature) /\ c.initial_temperature > 0,
       Num(c.min_temperature) /\ c.min_temperature > 0,
       Num(c.min_destroy_degree) /\ Num(c.max_destroy_degree)
          /\ c.min_destroy_degree <= c.max_destroy_degree >>
RuleError ==
    << "max_iterations must be positive",
       "reaction_factor must be in (0, 1]",
       "cooling_rate must be in (0, 1)",
       "initial_temperature must be positive",
       "min_temperature must be positive",
       "min_destroy_degree must be <= max_destroy_degree" >>
Violated(c) == {k \in 1..6 : ~RuleHolds(c)[k]}
FirstViolated(c) == CHOOSE k \in Violated(c) : \A j \in Violated(c) : k <= j

\* C5: validate() returns Ok exactly when all six rules hold, and otherwise
\* the error of the first violated rule in the order max_iterations,
\* reaction_factor, cooling_rate, initial_temperature, min_temperature,
\* destroy degrees.
C5_ValidateSixRules ==
    pc = "validated" =>
        validation = IF Violated(cfg) = {} THEN "Ok" ELSE RuleError[FirstViolated(cfg)]

\* C6: if validate() fails or a pool is empty the run aborts during
\* initialization, in the order configuration, destroy pool, repair pool:
\* the loop never starts, no Result is produced, no collaborator is called
\* and the flag is never read.
C6_FatalPreconditions ==
    (pc # "INITIALIZING" /\ (validate(cfg) # "Ok" \/ nDestroy = 0 \/ nRepair = 0)) =>
        /\ pc = "ABORTED"
        /\ panic_msg = IF validate(cfg) # "Ok" THEN "invalid AlnsConfig"
                       ELSE IF nDestroy = 0 THEN "at least one destroy operator required"
                       ELSE "at least one repair operator required"
        /\ result = <<>>
        /\ calls = NoCalls
        /\ flag_reads = 0
        /\ iteration = 0
        /\ cost_history = <<>>

\* an abort on the last check, with the flag already set and not read
C6_Witness ==
    /\ pc = "ABORTED"
    /\ panic_msg = "at least one repair operator required"
    /\ nDestroy > 0
    /\ flag

\* the states of the search loop's state machine
RunState == IF Running THEN "RUNNING" ELSE pc

\* C7: the run moves INITIALIZING -> RUNNING -> COMPLETED or CANCELLED and
\* by no other transition between these states (an abort leaves them and
\* returns nothing), never leaves a terminal state, and Result.cancelled is
\* true exactly when the poll at the start of an iteration saw the flag set
\* and false exactly when all max_iterations iterations were executed.
C7_StateMachine ==
    [][/\ RunState' # RunState =>
            \/ RunState = "INITIALIZING" /\ RunState' \in {"RUNNING", "ABORTED"}
            \/ RunState = "RUNNING" /\ RunState' \in {"COMPLETED", "CANCELLED", "ABORTED"}
       /\ (pc = "poll" /\ pc' = "exit") =>
            (cancelled' <=> (iteration < cfg.max_iterations /\ hasCancel /\ flag))
       /\ pc' = "CANCELLED" =>
            /\ result'[1].cancelled
            /\ cancelled' /\ hasCancel /\ flag'
            /\ iteration' < cfg.max_iterations
       /\ pc' = "COMPLETED" =>
            /\ ~result'[1].cancelled
            /\ iteration' = cfg.max_iterations
       /\ (Len(result') = 1) <=> (pc' \in {"COMPLETED", "CANCELLED"})
       /\ pc \in {"COMPLETED", "CANCELLED", "ABORTED"} => pc' = pc
      ]_vars

\* a run that completed although the flag was set, after its last iteration
C7_Witness ==
    /\ pc = "COMPLETED"
    /\ hasCancel /\ flag
    /\ ~Res.cancelled
    /\ flag_reads = cfg.max_iterations

\* whether the body of an iteration panics, whatever the flag holds
BodyPanics(c) == DegreeRange(c) = {} \/ c.segment_length = 0

\* C8: the flag is read once per iteration, before operator selection; an
\* iteration in flight when the flag is set still runs every step; once
\* the flag is seen set no further iteration starts; the runner never
\* writes the flag.
C8_CooperativeCancellation ==
    [][/\ flag_reads' # flag_reads =>
            pc = "poll" /\ pc' \in {"body", "exit"} /\ flag_reads' = flag_reads + 1
       /\ (hasCancel /\ pc' = "body") => flag_reads' = iteration' + 1
       /\ (hasCancel /\ pc' = "poll") => flag_reads' = iteration'
       /\ (pc = "body" /\ flag /\ pc' # "body") =>
            IF BodyPanics(cfg) THEN pc' = "ABORTED"
            ELSE /\ pc' = "poll"
                 /\ iteration' = iteration + 1
                 /\ calls' = [calls EXCEPT !.destroy = @ + 1, !.repair = @ + 1,
                                           !.cost = @ + 1]
                 /\ last'.tier \in {"NEW_BEST", "IMPROVED", "SA"}
                 /\ (last'.accepted => current' = last'.candidate)
                 /\ temperature' = Cool(temperature, cfg)
                 /\ (SegmentCloses(cfg, iteration) =>
                        \A i \in DOMAIN destroy_stats' : destroy_stats'[i].segment_uses = 0)
                 /\ (~SegmentCloses(cfg, iteration) =>
                        destroy_stats'[last'.d_idx].segment_uses
                            = destroy_stats[last'.d_idx].segment_uses + 1)
                 /\ (HistoryDue(cfg, iteration) =>
                        Len(cost_history') = Len(cost_history) + 1)
       /\ (pc = "poll" /\ flag /\ hasCancel /\ pc' # "poll") =>
            pc' = "exit" /\ iteration' = iteration
       /\ flag' # flag => (pc' = pc /\ iteration' = iteration /\ cancelled' = cancelled)
      ]_vars

\* the flag was set while an iteration, not the first, was in flight: the
\* poll before it had found the flag clear
C8_Witness ==
    /\ pc = "body"
    /\ flag
    /\ iteration >= 1
    /\ flag_reads = iteration + 1
    /\ ~BodyPanics(cfg)

SetMin(S) == CHOOSE x \in S : \A y \in S : x <= y

\* C9: a poll that finds the flag set within the budget ends the run with a
\* Result, cancelled = true, whose best / best_cost are the cheapest of the
\* initial solution and the candidates of the iterations completed before;
\* cancelled before the first iteration, the Result is the initial solution
\* and its cost, improvements = 0, iterations = 0, all weights 1.0 and
\* cost_history = [initial cost].
C9_CancelledResult ==
    [][/\ (pc = "poll" /\ iteration < cfg.max_iterations /\ hasCancel /\ flag /\ pc' # pc) =>
            pc' = "exit" /\ cancelled'
       /\ (pc = "exit" /\ cancelled) => (hasCancel /\ flag /\ iteration < cfg.max_iterations)
       /\ (pc = "exit" /\ cancelled /\ pc' # pc) => pc' = "CANCELLED"
       /\ pc' = "CANCELLED" =>
            /\ Len(result') = 1
            /\ result'[1].cancelled
            /\ result'[1].best_cost = SetMin(evaluated')
            /\ cost(result'[1].best) = result'[1].best_cost
            /\ Cardinality(evaluated') <= iteration' + 1
            /\ iteration' = 0 =>
                 /\ result'[1].best = current'
                 /\ evaluated' = {result'[1].best_cost}
                 /\ result'[1].improvements = 0
                 /\ result'[1].iterations = 0
                 /\ \A i \in DOMAIN result'[1].destroy_weights :
                        result'[1].destroy_weights[i] = One
                 /\ \A i \in DOMAIN result'[1].repair_weights :
                        result'[1].repair_weights[i] = One
                 /\ DOMAIN result'[1].destroy_weights = 0..(nDestroy - 1)
                 /\ DOMAIN result'[1].repair_weights = 0..(nRepair - 1)
                 /\ result'[1].cost_history = <<result'[1].best_cost>>
      ]_vars

\* cancelled after an iteration that found a new best and then moved on to
\* a worse current solution
C9_Witness ==
    /\ pc = "CANCELLED"
    /\ iteration = 2
    /\ Res.improvements >= 1
    /\ current_cost > Res.best_cost

\* C10: Result.iterations is the number of loop iterations executed:
\* max_iterations for a run that was not cancelled, and for a cancelled run
\* the number of iterations completed before the poll that saw the flag.
C10_IterationsExecuted ==
    Len(result) = 1 => Res.iterations = iteration

\* C12: whenever candidate_cost < best_cost the candidate is accepted at
\* every temperature without an acceptance draw: current and best become the
\* candidate, current_cost and best_cost become candidate_cost, improvements
\* grows by exactly 1 and the reward is score_new_best; improvements changes
\* in no other step, starts at 0, and Result.improvements is its final value,
\* the number of iterations in which this happened.
C12_NewBestAlwaysAccepted ==
    [][/\ (pc = "body" /\ pc' = "poll" /\ last'.candidate_cost < best_cost) =>
            /\ last'.accepted
            /\ last'.accept_draws = 0
            /\ current' = last'.candidate /\ best' = last'.candidate
            /\ current_cost' = last'.candidate_cost
            /\ best_cost' = last'.candidate_cost
            /\ improvements' = improvements + 1
            /\ last'.score = cfg.score_new_best
            /\ destroy_stats'[last'.d_idx].segment_score =
                  IF SegmentCloses(cfg, iteration) THEN 0
                  ELSE destroy_stats[last'.d_idx].segment_score + cfg.score_new_best
       /\ (pc = "body" /\ pc' = "poll" /\ ~(last'.candidate_cost < best_cost)) =>
            improvements' = improvements /\ best' = best /\ best_cost' = best_cost
       /\ (pc = "INITIALIZING" /\ pc' = "poll") => improvements' = 0
       /\ (pc # "body" /\ pc # "INITIALIZING") => improvements' = improvements
       /\ Len(result') = 1 => result'[1].improvements = improvements'
      ]_vars

\* the candidate judged last was neither a new best nor better than current
NonImproving == last.tier # "none" /\ last.candidate_cost >= current_cost
                    /\ last.candidate_cost >= best_cost

\* the temperatures > 0 of the grid, down to the smallest
PositiveTemperatures == {t \in AcceptTemperatures : t > 0}

\* C13 as stated: for every non-improving candidate the acceptance
\* probability is 0 at temperature <= 0 and tends to 0 as the temperature
\* tends to 0; so the candidate is rejected at temperature <= 0 and, the
\* probability leaving 1 on the way to 0, there is a temperature > 0 at which
\* a rejection is among the outcomes.
C13_ProbabilityTendsToZero ==
    (pc = "accepted" /\ NonImproving) =>
        /\ temperature <= 0 => ~last.accepted
        /\ \E t \in PositiveTemperatures :
              FALSE \in AcceptOutcomes(last.candidate_cost - current_cost, t)

\* C13 amended: a non-improving candidate is rejected, after one draw, when
\* temperature <= 0; a candidate of the same cost as current is accepted at
\* every temperature > 0, however small (exp(0) = 1 exceeds every draw), so
\* only for candidate_cost > current_cost can the probability tend to 0.
C13_RejectedAtZeroOnly ==
    (pc = "accepted" /\ NonImproving) =>
        /\ last.tier = "SA" /\ last.accept_draws = 1
        /\ temperature <= 0 => (~last.accepted /\ last.score = 0)
        /\ (temperature > 0 /\ last.candidate_cost = current_cost) =>
              (last.accepted /\ last.score = cfg.score_accepted)
        /\ \A t \in PositiveTemperatures :
              (FALSE \in AcceptOutcomes(last.candidate_cost - current_cost, t))
                  => last.candidate_cost > current_cost

\* a candidate of the same cost as current, rejected at temperature 0
C13_Witness ==
    /\ pc = "accepted"
    /\ NonImproving
    /\ temperature = 0
    /\ last.candidate_cost = current_cost
    /\ last.candidate # current
    /\ ~last.accepted

\* C14: for every configuration validate() accepts, every weight of both
\* pools is strictly positive at every iteration of the run and in the
\* Result, and every operator of both pools can be returned by
\* roulette_select.
C14_WeightsStrictlyPositive ==
    (Precondition(cfg, nDestroy, nRepair) = "" /\ Initialized) =>
        /\ AllWeights(destroy_stats, LAMBDA w : w > 0)
        /\ AllWeights(repair_stats, LAMBDA w : w > 0)
        /\ Selectable(destroy_stats) = DOMAIN destroy_stats
        /\ Selectable(repair_stats) = DOMAIN repair_stats

\* C15: for every configuration validate() accepts, every degree passed to
\* a destroy operator satisfies min_destroy_degree <= degree <
\* max_destroy_degree and 0 <= degree <= 1.
C15_DegreeInRange ==
    (Precondition(cfg, nDestroy, nRepair) = "" /\ last.tier # "none") =>
        /\ cfg.min_destroy_degree <= last.degree
        /\ last.degree < cfg.max_destroy_degree
        /\ 0 <= last.degree /\ last.degree <= One

\* C16: segment_length is clamped to >= 1 wherever it is used:
\* with_segment_length(0) stores 1, and a run whose segment_length field is 0
\* proceeds as with 1: it does not abort, and after every iteration the
\* weights have been updated (the segment accumulators are reset) and one
\* sample has been appended to cost_history.
C16_SegmentLengthClamped ==
    /\ \A n \in 0..MaxSeg :
          with_segment_length(cfg, n).segment_length = (IF n = 0 THEN 1 ELSE n)
    /\ (Precondition(cfg, nDestroy, nRepair) = "" /\ DegreeRange(cfg) # {}
            /\ cfg.segment_length = 0) =>
          /\ pc # "ABORTED"
          /\ pc = "poll" =>
                /\ Len(cost_history) = iteration + 1
                /\ \A i \in DOMAIN destroy_stats : destroy_stats[i].segment_uses = 0
                /\ \A i \in DOMAIN repair_stats : repair_stats[i].segment_uses = 0

LastOf(h) == h[Len(h)]

\* the steps that write cost_history: the initial cost first, one best_cost
\* sample after every iteration whose 1-indexed count is a multiple of
\* segment_length, and on exit one final sample if and only if the last
\* sample differs from best_cost by more than 1e-15
HistorySteps ==
    /\ (pc = "INITIALIZING" /\ pc' = "poll") =>
          cost_history' = <<cost(current')>>
    /\ (pc = "body" /\ pc' = "poll") =>
          cost_history' = IF (iteration + 1) % cfg.segment_length = 0
                          THEN Append(cost_history, best_cost')
                          ELSE cost_history
    /\ (pc = "exit" /\ pc' # pc) =>
          /\ pc' \in {"COMPLETED", "CANCELLED"}
          /\ result'[1].cost_history = cost_history'
          /\ result'[1].best_cost = best_cost
          /\ cost_history' =
                IF Abs(LastOf(cost_history) - best_cost) > CostEps
                THEN Append(cost_history, best_cost)
                ELSE cost_history
    /\ (pc \notin {"INITIALIZING", "body", "exit"}) => cost_history' = cost_history

\* C17 as stated: cost_history is written by exactly those steps, and on
\* exit its last entry equals Result.best_cost.
C17_HistoryEndsAtBest ==
    [][/\ HistorySteps
       /\ Len(result') = 1 => LastOf(result'[1].cost_history) = result'[1].best_cost
      ]_vars

\* C17 amended: cost_history is written by exactly those steps, and on exit
\* its last entry is within 1e-15 of Result.best_cost: equal to it when the
\* final sample was appended, and else the last sample taken.
C17_HistoryEndsNearBest ==
    [][/\ HistorySteps
       /\ Len(result') = 1 =>
             /\ Abs(LastOf(result'[1].cost_history) - result'[1].best_cost) <= CostEps
             /\ Len(result'[1].cost_history) > Len(cost_history) =>
                   LastOf(result'[1].cost_history) = result'[1].best_cost
      ]_vars

\* a Result whose history ends above best_cost: the best was found after
\* the last sample and is too close to it for a final sample
C17_Witness ==
    /\ Len(result) = 1
    /\ LastOf(Res.cost_history) > Res.best_cost
    /\ Res.improvements >= 1
    /\ Len(Res.cost_history) >= 2

\* C18: roulette_select returns index 0 without a random draw (and without
\* entering the loop) whenever the list is empty or the weights sum to
\* <= 0, and returns index 0 for every draw when the list holds a single
\* operator of positive weight.
C18_DegenerateSelection ==
    pc = "selected" =>
        /\ (NumOps(destroy_stats) = 0 \/ TotalWeight(destroy_stats) <= 0) =>
              /\ roulette.index = 0
              /\ roulette.draws = 0
              /\ roulette.subtractions = 0
        /\ (NumOps(destroy_stats) = 1 /\ destroy_stats[0].weight > 0) =>
              /\ roulette.index = 0
              /\ roulette.draws = 1

\* index 0 returned without a draw for a list of several operators, one of
\* positive weight among them, whose weights sum to less than 0
C18_Witness ==
    /\ pc = "selected"
    /\ NumOps(destroy_stats) >= 2
    /\ TotalWeight(destroy_stats) < 0
    /\ \E i \in DOMAIN destroy_stats : i > 0 /\ destroy_stats[i].weight > 0
    /\ roulette.index = 0
    /\ roulette.draws = 0

\* C19: when the weight sum is positive (no weight being negative) and the
\* roll is in [0, total), index i is returned exactly when the roll lies in
\* [w_0 + ... + w_(i-1), w_0 + ... + w_i), so an operator of weight 0 is
\* never returned.
C19_CumulativeIntervals ==
    (/\ pc = "selected"
     /\ TotalWeight(destroy_stats) > 0
     /\ \A i \in DOMAIN destroy_stats : destroy_stats[i].weight >= 0
     /\ roulette.roll < TotalWeight(destroy_stats)) =>
        /\ \A i \in DOMAIN destroy_stats :
              (roulette.index = i) <=>
                  /\ SumWeights(destroy_stats, i) <= roulette.roll
                  /\ roulette.roll < SumWeights(destroy_stats, i + 1)
        /\ destroy_stats[roulette.index].weight # 0

\* what roulette_select does on a pool for one value of the draw
SelectionValid(stats, roll) ==
    /\ roulette_select(stats, roll) \in 0..(NumOps(stats) - 1)
    /\ RouletteSubtractions(stats, 0, roll) \in 1..NumOps(stats)
    /\ RouletteFallsThrough(stats, 0, roll) =>
          /\ roulette_select(stats, roll) = NumOps(stats) - 1
          /\ RouletteSubtractions(stats, 0, roll) = NumOps(stats)

\* C20: on a list of N >= 1 operators roulette_select ends after at most N
\* subtractions with an index in 0..N-1, which is N-1 when no remainder
\* reached <= 0; the d_idx and r_idx of every iteration index their pools.
C20_SelectionIndexValid ==
    /\ pc \in {"body", "select"} =>
          \A stats \in {destroy_stats, repair_stats} :
              NumOps(stats) >= 1 =>
                  /\ roulette_select(stats, 0) \in 0..(NumOps(stats) - 1)
                  /\ \A roll \in RollRangeRounded(stats) : SelectionValid(stats, roll)
    /\ pc = "selected" /\ NumOps(destroy_stats) >= 1 =>
          /\ roulette.index \in 0..(NumOps(destroy_stats) - 1)
          /\ roulette.subtractions <= NumOps(destroy_stats)
    /\ last.tier # "none" =>
          /\ last.d_idx \in 0..(nDestroy - 1) /\ last.d_idx \in DOMAIN destroy_stats
          /\ last.r_idx \in 0..(nRepair - 1) /\ last.r_idx \in DOMAIN repair_stats

\* an iteration that used the last operator of a pool of two whose weights
\* have moved apart, where a rounded roll can fall through the loop
C20_Witness ==
    /\ pc = "body"
    /\ nDestroy = 2
    /\ last.d_idx = 1
    /\ destroy_stats[0].weight # destroy_stats[1].weight
    /\ \E roll \in RollRangeRounded(destroy_stats) :
          RouletteFallsThrough(destroy_stats, 0, roll)

\* two new bests in a row, the second at the floor of the temperature
C12_Witness ==
    /\ pc = "COMPLETED"
    /\ Res.improvements = 2
    /\ last.tier = "NEW_BEST"
    /\ last.accept_draws = 0
    /\ temperature = cfg.min_temperature
    /\ iteration = 2

\* an iteration ran through: the step from the loop body back to the poll
IterationDone == pc = "body" /\ pc' = "poll"

\* C21: when best_cost <= candidate_cost < current_cost the candidate is
\* accepted without an acceptance draw, current and current_cost become the
\* candidate and its cost, the reward is score_improved, and best, best_cost
\* and improvements are unchanged; every candidate falls in exactly one tier,
\* decided in the order NEW_BEST, IMPROVED, SA-gated.
C21_ImprovedTier ==
    [][IterationDone =>
        /\ (best_cost <= last'.candidate_cost /\ last'.candidate_cost < current_cost) =>
              /\ last'.tier = "IMPROVED"
              /\ last'.accepted
              /\ last'.accept_draws = 0
              /\ current' = last'.candidate
              /\ current_cost' = last'.candidate_cost
              /\ last'.score = cfg.score_improved
              /\ best' = best /\ best_cost' = best_cost
              /\ improvements' = improvements
        /\ last'.tier \in {"NEW_BEST", "IMPROVED", "SA"}
        /\ (last'.tier = "NEW_BEST") <=> (last'.candidate_cost < best_cost)
        /\ (last'.tier = "IMPROVED") <=>
              (~(last'.candidate_cost < best_cost) /\ last'.candidate_cost < current_cost)
        /\ (last'.tier = "SA") <=>
              (~(last'.candidate_cost < best_cost) /\ ~(last'.candidate_cost < current_cost))
      ]_vars

\* a candidate strictly between the best and the current cost
C21_Witness ==
    /\ pc = "poll"
    /\ last.tier = "IMPROVED"
    /\ best_cost < last.candidate_cost
    /\ current = last.candidate
    /\ improvements = 0

\* C22: a rejected SA-gated candidate leaves current, current_cost, best,
\* best_cost and improvements unchanged and earns reward 0; an accepted one
\* changes only current and current_cost, to the candidate and its cost,
\* earns score_accepted, and leaves best, best_cost and improvements
\* unchanged.
C22_SaGatedFrame ==
    [][(IterationDone /\ ~(last'.candidate_cost < best_cost)
            /\ ~(last'.candidate_cost < current_cost)) =>
        /\ best' = best /\ best_cost' = best_cost /\ improvements' = improvements
        /\ last'.accept_draws = 1
        /\ IF last'.accepted
           THEN /\ current' = last'.candidate
                /\ current_cost' = last'.candidate_cost
                /\ last'.score = cfg.score_accepted
           ELSE /\ current' = current
                /\ current_cost' = current_cost
                /\ last'.score = 0
      ]_vars

\* a worse candidate rejected after an earlier worse candidate was accepted
C22_Witness ==
    /\ pc = "poll"
    /\ iteration = 2
    /\ last.tier = "SA" /\ ~last.accepted
    /\ last.candidate_cost > current_cost
    /\ current_cost > best_cost
    /\ last.score = 0

\* the statistics of a pool once the selected operator has recorded the reward
Recorded(stats, idx, score) ==
    [i \in DOMAIN stats |->
        IF i = idx
        THEN [weight        |-> stats[i].weight,
              segment_score |-> stats[i].segment_score + score,
              segment_uses  |-> stats[i].segment_uses + 1]
        ELSE stats[i]]

\* max(weight * (1 - reaction_factor) + (segment_score / segment_uses) *
\* reaction_factor, min_weight) on the grid
ExpectedWeight(stat, c) ==
    Max((stat.weight * (One - c.reaction_factor)) \div One
          + ((stat.segment_score \div stat.segment_uses) * c.reaction_factor) \div One,
        c.min_weight)

\* what the close of a segment makes of the statistics accumulated in it
ClosedAsClaimed(before, after, c) ==
    /\ DOMAIN after = DOMAIN before
    /\ \A i \in DOMAIN before :
          /\ after[i].weight = IF before[i].segment_uses > 0
                               THEN ExpectedWeight(before[i], c)
                               ELSE before[i].weight
          /\ after[i].segment_score = 0
          /\ after[i].segment_uses = 0

\* C23: at each segment close, for every operator of both pools: with
\* segment_uses > 0 the new weight is max(weight * (1 - reaction_factor) +
\* (segment_score / segment_uses) * reaction_factor, min_weight), with
\* segment_uses = 0 the weight is unchanged, and segment_score and
\* segment_uses are reset to 0 either way.
C23_WeightUpdateRule ==
    [][(IterationDone /\ (iteration + 1) % cfg.segment_length = 0) =>
        /\ ClosedAsClaimed(Recorded(destroy_stats, last'.d_idx, last'.score),
                           destroy_stats', cfg)
        /\ ClosedAsClaimed(Recorded(repair_stats, last'.r_idx, last'.score),
                           repair_stats', cfg)
      ]_vars

\* a segment closed on a pool of two: one operator unused and below
\* min_weight still, the other used and updated
C23_Witness ==
    /\ pc = "poll"
    /\ iteration >= 1
    /\ iteration % cfg.segment_length = 0
    /\ nDestroy = 2
    /\ \E i, j \in DOMAIN destroy_stats :
          /\ destroy_stats[i].weight = One
          /\ destroy_stats[j].weight > One
          /\ cfg.min_weight > One

\* C24: every executed iteration, accepted or rejected, adds 1 to
\* segment_uses and the iteration's reward to segment_score of exactly the
\* selected destroy and the selected repair operator, the same reward for
\* both and 0 for a rejected move, and leaves every other operator's
\* statistics as they were (the close of a segment then applies to the
\* statistics so recorded).
C24_RecordFrame ==
    [][IterationDone =>
        /\ last'.d_idx \in DOMAIN destroy_stats /\ last'.r_idx \in DOMAIN repair_stats
        /\ ~last'.accepted => last'.score = 0
        /\ IF (iteration + 1) % cfg.segment_length = 0
           THEN /\ destroy_stats' =
                      UpdateAll(Recorded(destroy_stats, last'.d_idx, last'.score), cfg)
                /\ repair_stats' =
                      UpdateAll(Recorded(repair_stats, last'.r_idx, last'.score), cfg)
           ELSE /\ destroy_stats' = Recorded(destroy_stats, last'.d_idx, last'.score)
                /\ repair_stats' = Recorded(repair_stats, last'.r_idx, last'.score)
      ]_vars

\* a rejected move counted as a use of the second of two destroy operators
C24_Witness ==
    /\ pc = "poll"
    /\ ~last.accepted /\ last.score = 0
    /\ nDestroy = 2 /\ last.d_idx = 1
    /\ destroy_stats[1].segment_uses = 1 /\ destroy_stats[1].segment_score = 0
    /\ destroy_stats[0].segment_uses = 0
    /\ repair_stats[last.r_idx].segment_uses = 1

StatsWeightsAre(stats, w) == \A i \in DOMAIN stats : stats[i].weight = w

\* C25: the weights change only at the end of an iteration whose 1-indexed
\* count is a multiple of segment_length, where the update runs on both
\* pools; in every other iteration, and in every other step of the run, both
\* weight vectors are unchanged, so a run with max_iterations <
\* segment_length returns all weights equal to 1.0.
C25_WeightsChangeAtSegmentClose ==
    [][/\ IterationDone =>
            IF (iteration + 1) % cfg.segment_length = 0
            THEN /\ destroy_stats' =
                       UpdateAll(Recorded(destroy_stats, last'.d_idx, last'.score), cfg)
                 /\ repair_stats' =
                       UpdateAll(Recorded(repair_stats, last'.r_idx, last'.score), cfg)
                 /\ \A i \in DOMAIN destroy_stats' : destroy_stats'[i].segment_uses = 0
                 /\ \A i \in DOMAIN repair_stats' : repair_stats'[i].segment_uses = 0
            ELSE /\ Weights(destroy_stats') = Weights(destroy_stats)
                 /\ Weights(repair_stats') = Weights(repair_stats)
       /\ (~IterationDone /\ pc # "INITIALIZING") =>
            /\ destroy_stats' = destroy_stats
            /\ repair_stats' = repair_stats
       /\ (pc = "INITIALIZING" /\ pc' = "poll") =>
            /\ StatsWeightsAre(destroy_stats', One)
            /\ StatsWeightsAre(repair_stats', One)
       /\ (Len(result') = 1 /\ cfg.max_iterations < cfg.segment_length) =>
            /\ \A i \in DOMAIN result'[1].destroy_weights :
                   result'[1].destroy_weights[i] = One
            /\ \A i \in DOMAIN result'[1].repair_weights :
                   result'[1].repair_weights[i] = One
      ]_vars

\* a completed run shorter than one segment: a new best was rewarded and
\* recorded, and the weights returned are still 1.0
C25_Witness ==
    /\ pc = "COMPLETED"
    /\ cfg.max_iterations < cfg.segment_length
    /\ last.tier = "NEW_BEST"
    /\ destroy_stats[last.d_idx].segment_score = cfg.score_new_best
    /\ \A i \in DOMAIN Res.destroy_weights : Res.destroy_weights[i] = One

RECURSIVE SumUses(_, _)
SumUses(stats, n) ==
    IF n = 0 THEN 0 ELSE SumUses(stats, n - 1) + stats[n - 1].segment_uses

RECURSIVE SumScore(_, _)
SumScore(stats, n) ==
    IF n = 0 THEN 0 ELSE SumScore(stats, n - 1) + stats[n - 1].segment_score

C27_BestIsMinimum ==
    [][/\ (pc' \in {"poll", "body", "exit", "COMPLETED", "CANCELLED"}) =>
            /\ best_cost' <= current_cost'
            /\ best_cost' = SetMin(evaluated')
            /\ cost(best') = best_cost'
            /\ cost(current') = current_cost'
            /\ cost_history'[1] \in evaluated'
       /\ (pc # "INITIALIZING") => best_cost' <= best_cost
       /\ IterationDone => evaluated' = evaluated \cup {last'.candidate_cost}
       /\ (pc = "INITIALIZING" /\ pc' = "poll") => evaluated' = {cost_history'[1]}
       /\ Len(result') = 1 =>
            /\ result'[1].best_cost = best_cost'
            /\ result'[1].best_cost <= result'[1].cost_history[1]
      ]_vars

\* a Result whose best is below the initial cost while the trajectory has
\* moved back above it
C27_Witness ==
    /\ Len(result) = 1
    /\ Res.best_cost < Res.cost_history[1]
    /\ Res.best_cost < current_cost
    /\ Cardinality(evaluated) >= 3
    /\ last.tier = "SA" /\ last.accepted

\* C29: a candidate whose cost equals current_cost and is not below
\* best_cost is accepted at every temperature > 0, after one draw: current
\* becomes the candidate and both selected operators record score_accepted.
C29_EqualCostAccepted ==
    [][(IterationDone /\ last'.candidate_cost = current_cost
            /\ ~(last'.candidate_cost < best_cost) /\ temperature > 0) =>
        /\ last'.tier = "SA"
        /\ last'.accept_draws = 1
        /\ last'.accepted
        /\ current' = last'.candidate /\ current_cost' = current_cost
        /\ last'.score = cfg.score_accepted
        /\ (iteration + 1) % cfg.segment_length # 0 =>
              /\ destroy_stats'[last'.d_idx].segment_score =
                    destroy_stats[last'.d_idx].segment_score + cfg.score_accepted
              /\ repair_stats'[last'.r_idx].segment_score =
                    repair_stats[last'.r_idx].segment_score + cfg.score_accepted
      ]_vars

\* another solution of the same cost replaced current, at the floor of the
\* temperature
C29_Witness ==
    /\ pc = "poll"
    /\ last.tier = "SA" /\ last.accepted
    /\ last.candidate_cost = best_cost
    /\ current = last.candidate /\ current # best
    /\ iteration = 3
    /\ temperature = cfg.min_temperature
    /\ last.score = cfg.score_accepted

\* C26: the stream is consumed first by initial_solution, then in every
\* iteration by destroy-operator selection, repair-operator selection, the
\* degree, the destroy call, the repair call, and last by one acceptance
\* draw made only when the candidate is neither a new best nor better than
\* current; no other step draws.
C26_DrawOrder ==
    [][/\ (pc = "INITIALIZING" /\ pc' = "poll") => last'.draws = <<"initial_solution">>
       /\ IterationDone =>
            last'.draws =
                <<"destroy_select", "repair_select", "degree", "destroy", "repair">>
                \o (IF ~(last'.candidate_cost < best_cost)
                        /\ ~(last'.candidate_cost < current_cost)
                     THEN <<"accept">> ELSE <<>>)
       /\ (pc \notin {"INITIALIZING", "body"}) => last'.draws = last.draws
      ]_vars

\* C28: in every Result, completed or cancelled, iterations <=
\* max_iterations.
C28_IterationsWithinBudget ==
    Len(result) = 1 => Res.iterations <= cfg.max_iterations

====
